---- MODULE Spec2Model ----
(***************************************************************************)
(* The Human-in-the-Loop approval workflow of day-16:                      *)
(*   hitl_agent.py   the LangGraph workflow (analyze, human_review,        *)
(*                   execute, handle_rejection, respond), run and resume   *)
(*   checkpointer.py the Task Store (SQLite table "tasks")                 *)
(*   server.py       the REST handlers and the timeout sweeper             *)
(* Strings built by f-strings are sequences of their parts; "" is <<>>.    *)
(* A multi-line LLM answer is a sequence of lines.                         *)
(***************************************************************************)
EXTENDS Integers, Sequences, FiniteSets, TLC

VARIABLES
    tasks,      \* Task Store: task_id -> row of table "tasks"
    ckpt,       \* Checkpoint Store: thread_id -> [values, next]
    log,        \* history: task_id -> what its runs did (see NoLog)
    now         \* datetime.utcnow(), in seconds

vars == <<tasks, ckpt, log, now>>

---------------------------------------------------------------------------
\* Bounds of the model.
MaxTasks == 2
MaxTime == 301
TickStep == 301
MaxAttempts == 2

\* server.py: APPROVAL_TIMEOUT_SECONDS, default "300".
APPROVAL_TIMEOUT_SECONDS == 300

TaskIds == 1..MaxTasks
ThreadIds == 1..MaxTasks
\* Optional[str] = None for an id argument.
NoId == 0
\* Python's None in a TEXT column.
None == "<None>"

UserInputs == {"delete all user data"}

---------------------------------------------------------------------------
\* dict helpers
EmptyDict == [k \in {} |-> ""]

Get(d, k, default) == IF k \in DOMAIN d THEN d[k] ELSE default

Drop(d, ks) == [k \in (DOMAIN d) \ ks |-> d[k]]

\* A node's return value merged into the state (every channel written by a
\* node is a last-value channel; no node returns "messages").
Merge(s, upd) == [k \in DOMAIN s |-> IF k \in DOMAIN upd THEN upd[k] ELSE s[k]]

---------------------------------------------------------------------------
\* The LLM's answer to the analysis prompt, as text: a sequence of lines.
FenceLine == [kind |-> "fence", obj |-> EmptyDict]
JunkLine == [kind |-> "junk", obj |-> EmptyDict]
ArrayLine == [kind |-> "array", obj |-> EmptyDict]
ObjectLine(o) == [kind |-> "object", obj |-> o]

RiskTexts == {"low", "medium", "high", "critical", "urgent"}

FullObject(r, q) ==
    [analysis |-> <<JunkLine>>, action_type |-> "delete_data",
     description |-> "delete all user data", risk_level |-> r,
     requires_approval |-> q]

\* JSON objects the LLM may answer with: any risk text, any flag, either key
\* possibly missing.
LLMObjects ==
    { Drop(FullObject(r, q), ks) :
        r \in RiskTexts, q \in BOOLEAN,
        ks \in SUBSET {"risk_level", "requires_approval"} }

LLMTexts ==
    { <<ObjectLine(o)>> : o \in LLMObjects }
    \cup { <<FenceLine, ObjectLine(o), FenceLine>> : o \in LLMObjects }
    \cup { <<JunkLine>>, <<ArrayLine>>, <<>>, <<FenceLine, JunkLine, FenceLine>>,
           <<FenceLine, ArrayLine, FenceLine>>,
           <<FenceLine, ObjectLine(FullObject("low", FALSE))>> }

\* response_text.startswith("```"): lines = split("\n"); "\n".join(lines[1:-1])
StripFence(text) ==
    IF Len(text) > 0 /\ text[1].kind = "fence"
    THEN SubSeq(text, 2, Len(text) - 1)
    ELSE text

\* json.loads: one JSON value and nothing else, or JSONDecodeError.
JsonDecodeError(text) == ~(Len(text) = 1 /\ text[1].kind \in {"object", "array"})

JsonIsObject(text) == Len(text) = 1 /\ text[1].kind = "object"

JsonLoads(text) == text[1].obj

---------------------------------------------------------------------------
\* checkpointer.py: the Task Store.
Columns ==
    {"task_id", "thread_id", "created_at", "updated_at", "status",
     "current_node", "pending_action", "user_input", "error_message"}

\* TaskStore.create_task: the row a new task gets.
TaskMetadata(thread_id, user_input, t) ==
    [thread_id |-> thread_id, created_at |-> t, updated_at |-> t,
     status |-> "pending", current_node |-> None, pending_action |-> None,
     user_input |-> user_input, error_message |-> None]

\* Mutant of CreateTaskRaises: INSERT OR REPLACE, a second row with the same
\* task_id takes the place of the first.
CreateTaskReplaces(tbl, task_id) == FALSE

\* INSERT INTO tasks: task_id is the PRIMARY KEY, so a second row with the
\* same task_id raises sqlite3.IntegrityError. thread_id has an index only.
CreateTaskRaises(tbl, task_id) == task_id \in DOMAIN tbl

create_task(tbl, task_id, thread_id, user_input, t) ==
    [id \in (DOMAIN tbl) \cup {task_id} |->
        IF id = task_id THEN TaskMetadata(thread_id, user_input, t) ELSE tbl[id]]

\* Mutant of UpdateTaskRaises: a store that takes any keyword.
UpdateTaskLenient(updates) == FALSE

\* UPDATE tasks SET k = ?, ... : a keyword that is no column of the table
\* raises sqlite3.OperationalError ("no such column") and changes nothing.
UpdateTaskRaises(updates) == ~(DOMAIN updates \subseteq Columns)

\* Mutant of update_task: updated_at is left as it was.
update_task_unstamped(tbl, task_id, updates, t) ==
    [id \in DOMAIN tbl |->
        IF id = task_id THEN Merge(tbl[id], updates) ELSE tbl[id]]

\* TaskStore.update_task: stamps updated_at; a task_id with no row matches
\* nothing.
update_task(tbl, task_id, updates, t) ==
    [id \in DOMAIN tbl |->
        IF id = task_id
        THEN [Merge(tbl[id], updates) EXCEPT !.updated_at = t]
        ELSE tbl[id]]

\* TaskStore.get_task(task_id).status, or "unknown" (run/resume's return).
StatusOf(tbl, task_id) ==
    IF task_id \in DOMAIN tbl THEN tbl[task_id].status ELSE "unknown"

---------------------------------------------------------------------------
\* History kept beside the store, per task:
\*   nodes         the nodes entered, in order
\*   written       the statuses update_task wrote, in order
\*   executed      how many times execute_action_node performed the action
\*   auto_rejects  how many times the sweeper called resume for the task
\*   resumes       how many times _process_approval called resume for the task
\*   answer_kind   what the LLM answered to the analysis prompt
\*   outcome       how run_hitl_agent ended: "returned" or "raised"
\*   ret_status    the status run_hitl_agent returned
\*   ret_executed  `executed` when run_hitl_agent ended
\*   rated         [risk_level, requires_approval] as analysis returned them
NoRating == [risk_level |-> "", requires_approval |-> FALSE]

NoLog ==
    [nodes |-> <<>>, written |-> <<>>, executed |-> 0, auto_rejects |-> 0,
     resumes |-> 0, answer_kind |-> "", outcome |-> "", ret_status |-> "", ret_executed |-> 0,
     rated |-> NoRating]

\* What the analysis prompt was answered with, after the fence is stripped.
AnswerKind(llm) ==
    IF llm.analysis_fails THEN "llm_failed"
    ELSE IF JsonDecodeError(StripFence(llm.text)) THEN "not_json"
    ELSE IF ~JsonIsObject(StripFence(llm.text)) THEN "json_non_object"
    ELSE "json_object"

Noted(w, task_id, field, value) ==
    IF task_id \in DOMAIN w.log
    THEN [w EXCEPT !.log[task_id] = [k \in DOMAIN @ |-> IF k = field THEN value ELSE @[k]]]
    ELSE w

Entered(w, task_id, node) ==
    IF task_id \in DOMAIN w.log
    THEN [w EXCEPT !.log[task_id].nodes = Append(@, node)]
    ELSE w

\* get_task_store().update_task(task_id, **updates) from a node or handler,
\* with the history of the statuses written.
StoreUpdate(w, task_id, updates, t) ==
    [w EXCEPT
        !.tasks = update_task(w.tasks, task_id, updates, t),
        !.log = [id \in DOMAIN w.log |->
                    IF id = task_id /\ id \in DOMAIN w.tasks /\ "status" \in DOMAIN updates
                    THEN [w.log[id] EXCEPT !.written = Append(@, updates.status)]
                    ELSE w.log[id]]]

---------------------------------------------------------------------------
\* hitl_agent.py: the nodes. Each returns [raised, upd, w]: whether it raised,
\* the dict it returns, and the store after its writes.
Raised(w) == [raised |-> TRUE, upd |-> EmptyDict, w |-> w]
Returns(upd, w) == [raised |-> FALSE, upd |-> upd, w |-> w]

\* The content of the first user message.
FirstUserInput(s) == IF Len(s.messages) > 0 THEN s.messages[1] ELSE ""

\* Mutant of analyze_request_node: a missing requires_approval counts as false.
analyze_defaulting_to_false(s, w0, t, llm) ==
    LET w == Noted(Entered(w0, s.task_id, "analyze"), s.task_id,
                   "answer_kind", AnswerKind(llm))
        response_text == StripFence(llm.text)
    IN  IF llm.analysis_fails \/ JsonDecodeError(response_text)
           \/ ~JsonIsObject(response_text)
        THEN Raised(w)
        ELSE Returns(
                [analysis |-> Get(JsonLoads(response_text), "analysis", <<>>),
                 action_plan |-> Drop(JsonLoads(response_text), {"analysis", "requires_approval"}),
                 risk_level |-> Get(JsonLoads(response_text), "risk_level", "medium"),
                 requires_approval |-> Get(JsonLoads(response_text), "requires_approval", FALSE),
                 iteration |-> s.iteration + 1], w)

\* analyze_request_node. llm.analysis_fails: llm.invoke raises;
\* llm.text: response.content.
analyze_request_node(s, w0, t, llm) ==
    LET w == Noted(Entered(w0, s.task_id, "analyze"), s.task_id,
                   "answer_kind", AnswerKind(llm))
        user_input == FirstUserInput(s)
        response_text == StripFence(llm.text)
    IN  IF llm.analysis_fails THEN Raised(w)
        ELSE IF JsonDecodeError(response_text)
        THEN Returns(
                [analysis |-> response_text,
                 action_plan |->
                    [action_type |-> "unknown", description |-> user_input,
                     risk_level |-> "high", parameters |-> EmptyDict,
                     reason |-> "cannot parse, needs human judgment"],
                 risk_level |-> "high",
                 requires_approval |-> TRUE,
                 iteration |-> s.iteration + 1], w)
        ELSE IF ~JsonIsObject(response_text)
        THEN Raised(w)   \* result.get: AttributeError, not caught
        ELSE LET result == JsonLoads(response_text)
             IN Returns(
                [analysis |-> Get(result, "analysis", <<>>),
                 action_plan |->
                    [action_type |-> Get(result, "action_type", "unknown"),
                     description |-> Get(result, "description", ""),
                     risk_level |-> Get(result, "risk_level", "medium"),
                     parameters |-> Get(result, "parameters", EmptyDict),
                     reason |-> Get(result, "reason", "")],
                 risk_level |-> Get(result, "risk_level", "medium"),
                 requires_approval |-> Get(result, "requires_approval", TRUE),
                 iteration |-> s.iteration + 1], w)

\* human_review_node: writes the store first, whatever approval_status is.
human_review_node(s, w0, t) ==
    LET w == StoreUpdate(Entered(w0, s.task_id, "human_review"), s.task_id,
                [status |-> "waiting_approval", current_node |-> "human_review",
                 pending_action |-> Get(s.action_plan, "description", "")], t)
    IN  IF s.approval_status \in {"approved", "rejected", "timeout"}
        THEN Returns(EmptyDict, w)
        ELSE Returns([approval_status |-> "pending"], w)

\* _simulate_action_execution
simulate_action_execution(action_type, action_plan) ==
    LET description == Get(action_plan, "description", "")
    IN  CASE action_type = "query_info" -> <<"query done: ", description>>
          [] action_type = "modify_data" -> <<"data modified: ", description>>
          [] action_type = "delete_data" -> <<"data deleted: ", description>>
          [] action_type = "send_message" -> <<"message sent: ", description>>
          [] action_type = "make_payment" -> <<"payment done: ", description>>
          [] OTHER -> <<"action done: ", description>>

\* execute_action_node
execute_action_node(s, w0, t) ==
    LET w == Entered(w0, s.task_id, "execute")
    IN  IF s.requires_approval /\ s.approval_status # "approved"
        THEN Returns(
                [execution_result |-> <<>>,
                 error |-> <<"Cannot execute: approval_status=", s.approval_status>>], w)
        ELSE LET action_type == Get(s.action_plan, "action_type", "unknown")
                 result == simulate_action_execution(action_type, s.action_plan)
                 w1 == IF s.task_id \in DOMAIN w.log
                       THEN [w EXCEPT !.log[s.task_id].executed = @ + 1]
                       ELSE w
             IN Returns([execution_result |-> result],
                    StoreUpdate(w1, s.task_id,
                        [status |-> "completed", current_node |-> "execute_action"], t))

\* Mutant of ResponseBranch: the rejection is looked at before the error.
ResponseRejectionFirst(s) ==
    IF s.approval_status = "rejected" THEN "rejection"
    ELSE IF s.error # <<>> THEN "failure"
    ELSE IF s.approval_status = "timeout" THEN "timeout"
    ELSE "summary"

\* generate_response_node: the branch taken, as the system message's kind.
ResponseBranch(s) ==
    IF s.error # <<>> THEN "failure"
    ELSE IF s.approval_status = "rejected" THEN "rejection"
    ELSE IF s.approval_status = "timeout" THEN "timeout"
    ELSE "summary"

\* The context the branch puts into the prompt.
ResponseContext(s) ==
    LET branch == ResponseBranch(s)
        description == Get(s.action_plan, "description", "")
        head == [user_input |-> FirstUserInput(s), analysis |-> s.analysis]
    IN  CASE branch = "failure" ->
                [user_input |-> head.user_input, analysis |-> head.analysis,
                 error |-> s.error]
          [] branch = "rejection" ->
                [user_input |-> head.user_input, analysis |-> head.analysis,
                 description |-> description,
                 approval_comment |-> s.approval_comment]
          [] branch = "timeout" ->
                [user_input |-> head.user_input, analysis |-> head.analysis,
                 description |-> description]
          [] OTHER ->
                [user_input |-> head.user_input, analysis |-> head.analysis,
                 description |-> description,
                 execution_result |-> s.execution_result]

\* generate_response_node. llm.respond_fails: llm.invoke raises; otherwise
\* the LLM's answer is the answer to this prompt.
generate_response_node(s, w0, t, llm) ==
    LET w == Entered(w0, s.task_id, "respond")
    IN  IF llm.respond_fails THEN Raised(w)
        ELSE Returns([final_answer |-> <<ResponseBranch(s), ResponseContext(s)>>], w)

\* handle_rejection_node
handle_rejection_node(s, w0, t) ==
    Returns(EmptyDict,
        StoreUpdate(Entered(w0, s.task_id, "handle_rejection"), s.task_id,
            [status |-> "rejected", current_node |-> "handle_rejection"], t))

---------------------------------------------------------------------------
\* Routing.
\* Mutant of route_after_analysis: the risk level does not force the review.
route_ignoring_risk(s) ==
    IF s.requires_approval THEN "human_review" ELSE "execute"

\* Mutant of route_after_analysis: every request goes to the review.
route_always_review(s) == "human_review"

route_after_analysis(s) ==
    IF s.risk_level \in {"high", "critical"} THEN "human_review"
    ELSE IF s.requires_approval THEN "human_review"
    ELSE "execute"

route_after_review(s) ==
    IF s.approval_status = "approved" THEN "execute"
    ELSE IF s.approval_status \in {"rejected", "timeout"} THEN "reject"
    ELSE "wait"

END == "__end__"

\* create_hitl_graph: the edges.
NextNode(node, s) ==
    CASE node = "analyze" ->
            LET r == route_after_analysis(s)
            IN  IF r = "human_review" THEN "human_review"
                ELSE IF r = "execute" THEN "execute" ELSE "respond"
      [] node = "human_review" ->
            LET r == route_after_review(s)
            IN  IF r = "execute" THEN "execute"
                ELSE IF r = "reject" THEN "handle_rejection" ELSE END
      [] node = "execute" -> "respond"
      [] node = "handle_rejection" -> "respond"
      [] node = "respond" -> END
      [] OTHER -> END

\* graph.compile(interrupt_before=["human_review"])
interrupt_before == {"human_review"}

RunNode(node, s, w, t, llm) ==
    CASE node = "analyze" -> analyze_request_node(s, w, t, llm)
      [] node = "human_review" -> human_review_node(s, w, t)
      [] node = "execute" -> execute_action_node(s, w, t)
      [] node = "handle_rejection" -> handle_rejection_node(s, w, t)
      [] node = "respond" -> generate_response_node(s, w, t, llm)

\* The compiled graph's loop from `node` on: stop before a node of
\* interrupt_before (unless the run was just resumed at it), stop at END,
\* stop when a node raises (the checkpoint then is the one before that node).
\* Returns [values, next, w, raised].
RECURSIVE Pregel(_, _, _, _, _, _)

\* After `node` returned r on state s: its writes are applied and the edge
\* out of it is followed.
AfterNode(node, s, r, t, llm) ==
    IF r.raised
    THEN [values |-> s, next |-> node, w |-> r.w, raised |-> TRUE]
    ELSE Pregel(NextNode(node, Merge(s, r.upd)), Merge(s, r.upd), r.w, t, llm, FALSE)

Pregel(node, s, w, t, llm, resumed) ==
    IF node = END
    THEN [values |-> s, next |-> END, w |-> w, raised |-> FALSE]
    ELSE IF node \in interrupt_before /\ ~resumed
    THEN [values |-> s, next |-> node, w |-> w, raised |-> FALSE]
    ELSE AfterNode(node, s, RunNode(node, s, w, t, llm), t, llm)

---------------------------------------------------------------------------
\* The graph's entry points on a world W = [tasks, ckpt, log].
Store(W) == [tasks |-> W.tasks, log |-> W.log]

Saved(W, thread_id, r) ==
    [tasks |-> r.w.tasks, log |-> r.w.log,
     ckpt |-> [th \in (DOMAIN W.ckpt) \cup {thread_id} |->
                 IF th = thread_id THEN [values |-> r.values, next |-> r.next]
                 ELSE W.ckpt[th]]]

\* What invoke leaves and returns, r being the loop's result.
Invoked(W, thread_id, r) ==
    [W |-> Saved(W, thread_id, r), raised |-> r.raised, result |-> r.values]

\* The thread's channels after the input is written to them: "messages" has
\* the reducer `add`, every other key is replaced.
InputWritten(W, thread_id, input) ==
    IF thread_id \in DOMAIN W.ckpt
    THEN [input EXCEPT !.messages = W.ckpt[thread_id].values.messages \o @]
    ELSE input

\* agent.invoke(initial_state, config): the input is written to the thread's
\* channels and the graph runs from its entry point.
GraphInvoke(W, thread_id, input, t, llm) ==
    Invoked(W, thread_id,
        Pregel("analyze", InputWritten(W, thread_id, input), Store(W), t, llm, FALSE))

\* agent.update_state(config, update_state): patches the thread's checkpoint;
\* a thread with no checkpoint has no node to attribute the update to.
UpdateStateRaises(W, thread_id) == thread_id \notin DOMAIN W.ckpt

GraphUpdateState(W, thread_id, patch) ==
    [W EXCEPT !.ckpt[thread_id].values = Merge(@, patch)]

\* agent.invoke(None, config): goes on from the checkpoint's next node.
GraphResume(W, thread_id, t, llm) ==
    Invoked(W, thread_id,
        Pregel(W.ckpt[thread_id].next, W.ckpt[thread_id].values, Store(W), t, llm, TRUE))

\* run_hitl_agent: initial_state
initial_state(task_id, thread_id, user_input) ==
    [task_id |-> task_id, thread_id |-> thread_id,
     messages |-> <<user_input>>,
     analysis |-> <<>>, action_plan |-> EmptyDict, risk_level |-> "",
     requires_approval |-> FALSE, approval_status |-> "",
     approval_comment |-> "", approver |-> "",
     execution_result |-> <<>>, final_answer |-> <<>>,
     iteration |-> 0, error |-> <<>>]

\* str(uuid.uuid4()): an id nobody uses yet.
FreshTaskIds(W) == TaskIds \ DOMAIN W.tasks

UsedThreads(W) == (DOMAIN W.ckpt) \cup { W.tasks[id].thread_id : id \in DOMAIN W.tasks }

FreshThreadIds(W) == ThreadIds \ UsedThreads(W)

Min(S) == CHOOSE x \in S : \A y \in S : x <= y

NoResult == EmptyDict

\* What run/resume return: [W, raised, ret].
Ret(W, raised, task_id, thread_id, status, result) ==
    [W |-> W, raised |-> raised,
     ret |-> [task_id |-> task_id, thread_id |-> thread_id,
              status |-> status, result |-> result]]

\* The history of a run: how it ended, what it returned, what analysis rated.
RunNoted(g, task_id) ==
    [g.W EXCEPT !.log[task_id] =
        [@ EXCEPT !.outcome = IF g.raised THEN "raised" ELSE "returned",
                  !.ret_status = StatusOf(g.W.tasks, task_id),
                  !.ret_executed = g.W.log[task_id].executed,
                  !.rated = [risk_level |-> g.result.risk_level,
                             requires_approval |-> g.result.requires_approval]]]

\* run_hitl_agent from agent.invoke on, g being what invoke did.
RunInvoked(g, task_id, thread_id) ==
    Ret(RunNoted(g, task_id), g.raised, task_id, thread_id,
        StatusOf(g.W.tasks, task_id), IF g.raised THEN NoResult ELSE g.result)

\* run_hitl_agent with its ids chosen.
RunWithIds(W, user_input, task_id, thread_id, t, llm) ==
    IF CreateTaskRaises(W.tasks, task_id)
    THEN Ret(W, TRUE, task_id, thread_id, "", NoResult)
    ELSE RunInvoked(
            GraphInvoke([W EXCEPT !.tasks = create_task(@, task_id, thread_id, user_input, t)],
                thread_id, initial_state(task_id, thread_id, user_input), t, llm),
            task_id, thread_id)

\* run_hitl_agent(user_input, task_id, thread_id); NoId is None.
\* Returns [W, raised, ret].
run_hitl_agent(W, user_input, task_id_arg, thread_id_arg, t, llm) ==
    RunWithIds(W, user_input,
        IF task_id_arg # NoId THEN task_id_arg ELSE Min(FreshTaskIds(W)),
        IF thread_id_arg # NoId THEN thread_id_arg ELSE Min(FreshThreadIds(W)),
        t, llm)

\* resume_after_approval: the update_task call's keywords.
ResumeUpdates(approval_status) ==
    [status |-> approval_status, approval_status |-> approval_status]

\* resume_after_approval: the update_state call's values.
ResumePatch(approval_status, comment, approver) ==
    [approval_status |-> approval_status, approval_comment |-> comment,
     approver |-> approver]

\* resume_after_approval after agent.invoke(None, config), g being what it did.
ResumeInvoked(g, task_id, thread_id) ==
    IF g.raised THEN Ret(g.W, TRUE, task_id, thread_id, "", NoResult)
    ELSE Ret(g.W, FALSE, task_id, thread_id, StatusOf(g.W.tasks, task_id), g.result)

\* resume_after_approval after its update_task call left W1.
ResumeGraph(W1, task_id, thread_id, patch, t, llm) ==
    IF UpdateStateRaises(W1, thread_id)
    THEN Ret(W1, TRUE, task_id, thread_id, "", NoResult)
    ELSE ResumeInvoked(
            GraphResume(GraphUpdateState(W1, thread_id, patch), thread_id, t, llm),
            task_id, thread_id)

WithStore(W, S) == [W EXCEPT !.tasks = S.tasks, !.log = S.log]

\* Mutant of resume_after_approval: update_state comes before the store write.
resume_patching_first(W, task_id, thread_id, approved, comment, approver, t, llm) ==
    IF UpdateStateRaises(W, thread_id)
    THEN Ret(W, TRUE, task_id, thread_id, "", NoResult)
    ELSE Ret(GraphUpdateState(W, thread_id,
                ResumePatch(IF approved THEN "approved" ELSE "rejected", comment, approver)),
             TRUE, task_id, thread_id, "", NoResult)

\* resume_after_approval(task_id, thread_id, approved, comment, approver).
\* Returns [W, raised, ret].
resume_after_approval(W, task_id, thread_id, approved, comment, approver, t, llm) ==
    IF UpdateTaskRaises(ResumeUpdates(IF approved THEN "approved" ELSE "rejected"))
    THEN Ret(W, TRUE, task_id, thread_id, "", NoResult)
    ELSE ResumeGraph(
            WithStore(W, StoreUpdate(Store(W), task_id,
                ResumeUpdates(IF approved THEN "approved" ELSE "rejected"), t)),
            task_id, thread_id,
            ResumePatch(IF approved THEN "approved" ELSE "rejected", comment, approver),
            t, llm)

---------------------------------------------------------------------------
\* server.py: the handlers. Each returns [W, code, status, answer]: the world
\* after it, the HTTP status code, and the response's status and result.
Reply(W, code, status, answer) ==
    [W |-> W, code |-> code, status |-> status, answer |-> answer]

\* `x or default` on an Optional[str].
OrDefault(x, default) == IF x \in {None, ""} THEN default ELSE x

\* The response to a run or resume r.
Response(r) ==
    IF r.raised THEN Reply(r.W, "500", "", <<>>)
    ELSE Reply(r.W, "200", r.ret.status, Get(r.ret.result, "final_answer", <<>>))

\* POST /tasks
api_create_task(W, message, t, llm) ==
    Response(run_hitl_agent(W, message, NoId, NoId, t, llm))

\* Mutant of process_approval: the refused attempt is recorded on the task's
\* row before the request is refused.
process_approval_marking(W, task_id, approved, comment, approver, t, llm) ==
    IF task_id \notin DOMAIN W.tasks THEN Reply(W, "404", "", <<>>)
    ELSE IF W.tasks[task_id].status # "waiting_approval"
    THEN Reply(WithStore(W, StoreUpdate(Store(W), task_id,
                   [error_message |-> "not waiting for approval"], t)),
               "400", "", <<>>)
    ELSE Response(resume_after_approval([W EXCEPT !.log[task_id].resumes = @ + 1],
                      task_id, W.tasks[task_id].thread_id, approved,
                      OrDefault(comment, ""), OrDefault(approver, "system"), t, llm))

\* _process_approval
process_approval(W, task_id, approved, comment, approver, t, llm) ==
    IF task_id \notin DOMAIN W.tasks THEN Reply(W, "404", "", <<>>)
    ELSE IF W.tasks[task_id].status # "waiting_approval" THEN Reply(W, "400", "", <<>>)
    ELSE Response(resume_after_approval([W EXCEPT !.log[task_id].resumes = @ + 1],
                      task_id, W.tasks[task_id].thread_id, approved,
                      OrDefault(comment, ""), OrDefault(approver, "system"), t, llm))

\* POST /tasks/{task_id}/approve
approve_task(W, task_id, request, t, llm) ==
    IF ~request.approved THEN Reply(W, "400", "", <<>>)
    ELSE process_approval(W, task_id, TRUE, request.comment, request.approver, t, llm)

\* POST /tasks/{task_id}/reject
reject_task(W, task_id, request, t, llm) ==
    process_approval(W, task_id, FALSE, request.comment, request.approver, t, llm)

\* TaskStore.get_pending_approvals: the rows with status waiting_approval,
\* ORDER BY created_at (rows with equal created_at come in any order).
PendingIds(tbl) == { id \in DOMAIN tbl : tbl[id].status = "waiting_approval" }

\* Mutant of get_pending_approvals: ORDER BY created_at DESC, as
\* get_tasks_by_status orders.
get_pending_newest_first(tbl) ==
    LET P == PendingIds(tbl)
        n == Cardinality(P)
    IN  { q \in [1..n -> P] :
            /\ \A i, j \in 1..n : i # j => q[i] # q[j]
            /\ \A i, j \in 1..n : i < j => tbl[q[i]].created_at >= tbl[q[j]].created_at }

get_pending_approvals(tbl) ==
    LET P == PendingIds(tbl)
        n == Cardinality(P)
    IN  { q \in [1..n -> P] :
            /\ \A i, j \in 1..n : i # j => q[i] # q[j]
            /\ \A i, j \in 1..n : i < j => tbl[q[i]].created_at <= tbl[q[j]].created_at }

\* check_approval_timeouts: after the resume call r for task id, the status
\* write, which a raising resume skips (the except clause logs and goes on).
AutoRejected(r, id, t) ==
    IF r.raised THEN r.W
    ELSE WithStore(r.W, StoreUpdate(Store(r.W), id, [status |-> "timeout"], t))

\* Mutant of SweepOne: a task is auto-rejected from its deadline on, not after it.
SweepOneAtDeadline(W, task, id, t, llm) ==
    IF t >= task.created_at + APPROVAL_TIMEOUT_SECONDS
    THEN AutoRejected(
            resume_after_approval([W EXCEPT !.log[id].auto_rejects = @ + 1],
                id, task.thread_id, FALSE,
                "approval timed out, auto-rejected", "system_timeout", t, llm),
            id, t)
    ELSE W

\* check_approval_timeouts: the loop body for one fetched row.
SweepOne(W, task, id, t, llm) ==
    IF t > task.created_at + APPROVAL_TIMEOUT_SECONDS
    THEN AutoRejected(
            resume_after_approval([W EXCEPT !.log[id].auto_rejects = @ + 1],
                id, task.thread_id, FALSE,
                "approval timed out, auto-rejected", "system_timeout", t, llm),
            id, t)
    ELSE W

\* Mutant of SweepTasks: the try encloses the for loop, so the first failed
\* auto-reject ends the cycle.
RECURSIVE SweepTasksAborting(_, _, _, _, _)
SweepAbortingAfter(W1, tbl0, pending_tasks, t, llms) ==
    IF /\ t > tbl0[Head(pending_tasks)].created_at + APPROVAL_TIMEOUT_SECONDS
       /\ W1.tasks[Head(pending_tasks)].status # "timeout"
    THEN W1
    ELSE SweepTasksAborting(W1, tbl0, Tail(pending_tasks), t, llms)

SweepTasksAborting(W, tbl0, pending_tasks, t, llms) ==
    IF pending_tasks = <<>> THEN W
    ELSE SweepAbortingAfter(
            SweepOne(W, tbl0[Head(pending_tasks)], Head(pending_tasks), t,
                     llms[Head(pending_tasks)]),
            tbl0, pending_tasks, t, llms)

\* check_approval_timeouts: the for loop of one cycle over the fetched rows.
\* tbl0 is the fetched snapshot; llms[id] is the LLM during id's resume.
RECURSIVE SweepTasks(_, _, _, _, _)
SweepTasks(W, tbl0, pending_tasks, t, llms) ==
    IF pending_tasks = <<>> THEN W
    ELSE SweepTasks(
            SweepOne(W, tbl0[Head(pending_tasks)], Head(pending_tasks), t,
                     llms[Head(pending_tasks)]),
            tbl0, Tail(pending_tasks), t, llms)

\* One cycle of check_approval_timeouts, the rows fetched in order `pending_tasks`.
check_approval_timeouts(W, pending_tasks, t, llms) ==
    SweepTasks(W, W.tasks, pending_tasks, t, llms)

---------------------------------------------------------------------------
\* Inputs.
\* The LLM during one run: it fails on the analysis prompt, or answers it
\* with a text and then answers or fails on the respond prompt.
LLMs ==
    {[analysis_fails |-> TRUE, text |-> <<>>, respond_fails |-> FALSE]}
    \cup [analysis_fails : {FALSE}, text : LLMTexts, respond_fails : BOOLEAN]

\* During a resume only the respond node asks the LLM.
ResumeLLMs == [analysis_fails : {FALSE}, text : {<<>>}, respond_fails : BOOLEAN]

ApprovalRequests ==
    {[approved |-> TRUE, comment |-> None, approver |-> None],
     [approved |-> TRUE, comment |-> "looks fine", approver |-> "admin"],
     [approved |-> FALSE, comment |-> "too dangerous", approver |-> "admin"]}

World == [tasks |-> tasks, ckpt |-> ckpt, log |-> log]

Becomes(W) ==
    /\ tasks' = W.tasks
    /\ ckpt' = W.ckpt
    /\ log' = W.log

Init ==
    /\ tasks = [id \in {} |-> TaskMetadata(NoId, "", 0)]
    /\ ckpt = [th \in {} |-> [values |-> initial_state(NoId, NoId, ""), next |-> END]]
    /\ log = [id \in TaskIds |-> NoLog]
    /\ now = 0

\* The clock advances.
Tick ==
    /\ now + TickStep <= MaxTime
    /\ now' = now + TickStep
    /\ UNCHANGED <<tasks, ckpt, log>>

\* POST /tasks
ApiCreateTask ==
    \E message \in UserInputs, llm \in LLMs :
        /\ FreshTaskIds(World) # {}
        /\ Becomes(api_create_task(World, message, now, llm).W)
        /\ UNCHANGED now

\* run_hitl_agent called with a task_id and/or a thread_id already in use
\* (an id not in use acts as a fresh uuid does: NoId). The LLM is not asked
\* when create_task raises.
Run ==
    \E user_input \in UserInputs, task_id \in (DOMAIN tasks) \cup {NoId},
       thread_id \in UsedThreads(World) \cup {NoId} :
        /\ task_id # NoId \/ thread_id # NoId
        /\ task_id = NoId => FreshTaskIds(World) # {}
        /\ thread_id = NoId => FreshThreadIds(World) # {}
        /\ \E llm \in IF task_id = NoId THEN LLMs ELSE ResumeLLMs :
              Becomes(run_hitl_agent(World, user_input, task_id, thread_id, now, llm).W)
        /\ UNCHANGED now

\* POST /tasks/{task_id}/approve
Approve ==
    \E task_id \in TaskIds, request \in ApprovalRequests, llm \in ResumeLLMs :
        /\ task_id \in DOMAIN tasks => log[task_id].resumes < MaxAttempts
        /\ Becomes(approve_task(World, task_id, request, now, llm).W)
        /\ UNCHANGED now

\* POST /tasks/{task_id}/reject
Reject ==
    \E task_id \in TaskIds, request \in ApprovalRequests, llm \in ResumeLLMs :
        /\ task_id \in DOMAIN tasks => log[task_id].resumes < MaxAttempts
        /\ Becomes(reject_task(World, task_id, request, now, llm).W)
        /\ UNCHANGED now

\* resume_after_approval called directly.
Resume ==
    \E task_id \in TaskIds, thread_id \in ThreadIds, approved \in BOOLEAN,
       llm \in ResumeLLMs :
        /\ Becomes(resume_after_approval(World, task_id, thread_id, approved,
                       IF approved THEN "" ELSE "too dangerous", "system", now, llm).W)
        /\ UNCHANGED now

\* One cycle of the sweeper's loop.
Sweep ==
    \E pending_tasks \in get_pending_approvals(tasks),
       llms \in [PendingIds(tasks) -> ResumeLLMs] :
        /\ \A id \in PendingIds(tasks) : log[id].auto_rejects < MaxAttempts
        /\ Becomes(check_approval_timeouts(World, pending_tasks, now, llms))
        /\ UNCHANGED now

\* The process restarts. The Task Store is an SQLite file. get_checkpointer()
\* gives an SqliteSaver when langgraph-checkpoint-sqlite is installed
\* (SQLITE_AVAILABLE) and falls back to a MemorySaver, which a restart
\* empties, when it is not.
Restart ==
    \E SQLITE_AVAILABLE \in BOOLEAN :
        /\ ckpt' = IF SQLITE_AVAILABLE THEN ckpt ELSE [th \in {} |-> ckpt[th]]
        /\ UNCHANGED <<tasks, log, now>>

Next == Tick \/ ApiCreateTask \/ Run \/ Approve \/ Reject \/ Resume \/ Sweep

Spec == Init /\ [][Next]_vars

\* The service with restarts of its process.
RestartNext == Tick \/ ApiCreateTask \/ Approve \/ Reject \/ Resume \/ Restart

RestartSpec == Init /\ [][RestartNext]_vars

---------------------------------------------------------------------------
\* The package's parts driven directly. create_hitl_graph() is exported; on the
\* compiled graph a caller may call update_state and invoke(None) for a thread
\* suspended before human_review, the two calls resume_after_approval makes
\* after its store write. The server's handlers and sweeper run beside them.

\* The LLM's answers in these runs: one that is rated critical with
\* requires_approval false, one that is rated low.
GraphLLMs ==
    [analysis_fails : {FALSE},
     text : {<<ObjectLine(FullObject("critical", FALSE))>>,
             <<ObjectLine(FullObject("low", FALSE))>>},
     respond_fails : {FALSE}]

\* POST /tasks with these answers.
Submit ==
    \E message \in UserInputs, llm \in GraphLLMs :
        /\ FreshTaskIds(World) # {}
        /\ Becomes(api_create_task(World, message, now, llm).W)
        /\ UNCHANGED now

\* create_hitl_graph().update_state(config, {...}) with a decision.
UpdateState ==
    \E thread_id \in DOMAIN ckpt, approved \in BOOLEAN :
        /\ ckpt[thread_id].next = "human_review"
        /\ Becomes(GraphUpdateState(World, thread_id,
                ResumePatch(IF approved THEN "approved" ELSE "rejected",
                            IF approved THEN "" ELSE "too dangerous", "admin")))
        /\ UNCHANGED now

\* create_hitl_graph().invoke(None, config) on a suspended thread.
Continue ==
    \E thread_id \in DOMAIN ckpt, llm \in ResumeLLMs :
        /\ ckpt[thread_id].next = "human_review"
        /\ Becomes(GraphResume(World, thread_id, now, llm).W)
        /\ UNCHANGED now

GraphNext ==
    Tick \/ Submit \/ UpdateState \/ Continue \/ Approve \/ Reject \/ Sweep

GraphSpec == Init /\ [][GraphNext]_vars

---------------------------------------------------------------------------
\* Vocabulary of the properties.
Range(q) == { q[i] : i \in DOMAIN q }

Terminal == {"completed", "rejected", "timeout"}

\* The thread's checkpoint is the one of task id's own run.
OwnCheckpoint(id) ==
    /\ tasks[id].thread_id \in DOMAIN ckpt
    /\ ckpt[tasks[id].thread_id].values.task_id = id

\* run_hitl_agent returned with task id suspended before human_review.
Suspended(id) ==
    /\ id \in DOMAIN tasks
    /\ log[id].outcome = "returned"
    /\ OwnCheckpoint(id)
    /\ ckpt[tasks[id].thread_id].next = "human_review"

\* Task id's action has been performed, as the store and the history show it.
ActionExecuted(id) ==
    \/ log[id].executed > 0
    \/ "completed" \in Range(log[id].written)
    \/ tasks[id].status = "completed"

NeedsApproval(id) ==
    \/ log[id].rated.risk_level \in {"high", "critical"}
    \/ log[id].rated.requires_approval

Overdue(id) == now > tasks[id].created_at + APPROVAL_TIMEOUT_SECONDS

\* The LLM answers the respond prompt.
AnsweringLLM == [analysis_fails |-> FALSE, text |-> <<>>, respond_fails |-> FALSE]

---------------------------------------------------------------------------
\* C1: for every input that analysis rates high or critical, whatever the
\* classifier's requires_approval, the status run_hitl_agent returns is
\* waiting_approval and no action has been executed by then.
\* (The code leaves the status at pending: the graph is interrupted before
\* human_review_node, the only writer of waiting_approval, runs.)
C1_HighRiskRunEndsWaiting ==
    \A id \in DOMAIN tasks :
        (log[id].outcome = "returned"
            /\ log[id].rated.risk_level \in {"high", "critical"})
        => (log[id].ret_status = "waiting_approval" /\ log[id].ret_executed = 0)

\* C2: a task rated high or critical, or with requires_approval true, has its
\* action executed only if its workflow's approval_status is approved.
C2_ExecutionNeedsApproval ==
    \A id \in DOMAIN tasks :
        (NeedsApproval(id) /\ ActionExecuted(id))
        => (OwnCheckpoint(id)
            /\ ckpt[tasks[id].thread_id].values.approval_status = "approved")

\* C2 witness: a run rated high or critical by an answer whose
\* requires_approval is false was sent to the review and executed nothing.
C2_Witness ==
    \E id \in DOMAIN tasks :
        /\ log[id].rated.risk_level \in {"high", "critical"}
        /\ ~log[id].rated.requires_approval
        /\ Suspended(id)
        /\ log[id].nodes = <<"analyze">>
        /\ ~ActionExecuted(id)

\* C3: for every input that analysis rates low or medium with
\* requires_approval false, the run enters analyze, execute, respond in this
\* order and no other node, the task ends completed or failed, and
\* waiting_approval is never written; a run that returned reached the end.
C3_LowRiskRunsThrough ==
    \A id \in DOMAIN tasks :
        (log[id].answer_kind = "json_object"
            /\ log[id].outcome # ""
            /\ log[id].rated.risk_level \in {"low", "medium"}
            /\ ~log[id].rated.requires_approval)
        => /\ log[id].nodes = <<"analyze", "execute", "respond">>
           /\ tasks[id].status \in {"completed", "failed"}
           /\ log[id].ret_status \in {"completed", "failed"}
           /\ "waiting_approval" \notin Range(log[id].written)
           /\ (log[id].outcome = "returned" /\ OwnCheckpoint(id))
                => ckpt[tasks[id].thread_id].next = END

\* C3 witness: a medium-risk run that returned completed, and a low-risk one.
C3_Witness ==
    /\ \E id \in DOMAIN tasks :
        /\ log[id].rated = [risk_level |-> "medium", requires_approval |-> FALSE]
        /\ log[id].outcome = "returned"
        /\ log[id].ret_status = "completed"
        /\ log[id].executed = 1
    /\ \E id \in DOMAIN tasks :
        /\ log[id].rated = [risk_level |-> "low", requires_approval |-> FALSE]
        /\ log[id].answer_kind = "json_object"
        /\ log[id].outcome = "returned"

\* C4: when the LLM's answer to the analysis prompt does not parse, the run
\* is routed to the review and ends with status waiting_approval, with no
\* action executed.
\* (Routed to the review and not executed, but the status stays pending.)
C4_UnparseableEndsWaiting ==
    \A id \in DOMAIN tasks :
        (log[id].answer_kind = "not_json" /\ log[id].outcome # "")
        => /\ Suspended(id) \/ ~OwnCheckpoint(id)
           /\ log[id].ret_status = "waiting_approval"
           /\ ~ActionExecuted(id)

\* C5: a task that run suspended for review and that is resumed with
\* approved = true ends with status completed, the action executed exactly
\* once and a non-empty final_answer, by resume_after_approval and by
\* POST /tasks/{id}/approve.
\* (update_task(status=..., approval_status=...) raises: "approval_status" is
\* no column; the API refuses with 400 because the status is still pending.)
C5_ApprovedResumeCompletes ==
    \A id \in DOMAIN tasks :
        Suspended(id) =>
            /\ LET r == resume_after_approval(World, id, tasks[id].thread_id, TRUE,
                            "", "system", now, AnsweringLLM)
               IN  /\ ~r.raised
                   /\ r.ret.status = "completed"
                   /\ r.W.tasks[id].status = "completed"
                   /\ r.W.log[id].executed = 1
                   /\ r.ret.result.final_answer # <<>>
            /\ LET a == approve_task(World, id, [approved |-> TRUE, comment |-> None,
                            approver |-> None], now, AnsweringLLM)
               IN  /\ a.code = "200"
                   /\ a.status = "completed"
                   /\ a.answer # <<>>

\* C6: a task that run suspended for review and that is resumed with
\* approved = false ends with status rejected, its action never executed, and
\* a final answer from the respond node's rejection branch that carries the
\* supplied approval_comment.
C6_RejectedResumeRejects ==
    \A id \in DOMAIN tasks :
        Suspended(id) =>
            LET r == resume_after_approval(World, id, tasks[id].thread_id, FALSE,
                         "too dangerous", "system", now, AnsweringLLM)
            IN  /\ ~r.raised
                /\ r.ret.status = "rejected"
                /\ r.W.tasks[id].status = "rejected"
                /\ r.W.log[id].executed = 0
                /\ r.ret.result.final_answer[1] = "rejection"
                /\ r.ret.result.final_answer[2].approval_comment = "too dangerous"

\* C7: resume_after_approval on a task that is already completed, rejected or
\* timeout, with either decision, leaves the task's status as it is and does
\* not execute the action again.
C7_ResumeOnTerminalChangesNothing ==
    \A id \in DOMAIN tasks, approved \in BOOLEAN, llm \in ResumeLLMs :
        tasks[id].status \in Terminal =>
            LET r == resume_after_approval(World, id, tasks[id].thread_id, approved,
                         "again", "system", now, llm)
            IN  /\ r.W.tasks[id].status = tasks[id].status
                /\ r.W.log[id].executed = log[id].executed
                /\ r.W.log[id].nodes = log[id].nodes

\* C7 witness: a task is completed, its action executed once, and a resume
\* for it ends without a status.
C7_Witness ==
    \E id \in DOMAIN tasks :
        /\ tasks[id].status = "completed"
        /\ log[id].executed = 1
        /\ OwnCheckpoint(id)
        /\ resume_after_approval(World, id, tasks[id].thread_id, TRUE,
               "again", "system", now, AnsweringLLM).raised

\* C8: an approve or reject request answered 404 (unknown task_id) or 400
\* (status other than waiting_approval; approve with approved = false)
\* leaves the Task Store, the checkpoints and the record of nodes run as
\* they were.
C8_RefusedRequestChangesNothing ==
    \A id \in TaskIds, request \in ApprovalRequests, llm \in ResumeLLMs :
        /\ LET a == approve_task(World, id, request, now, llm)
           IN  a.code \in {"400", "404"} => a.W = World
        /\ LET a == reject_task(World, id, request, now, llm)
           IN  a.code \in {"400", "404"} => a.W = World

\* C8 witness: the three refusals: an unknown id (404), a task that is not
\* waiting (400), an approve request with approved = false (400).
C8_Witness ==
    /\ \E id \in TaskIds \ DOMAIN tasks :
        reject_task(World, id, [approved |-> FALSE, comment |-> "too dangerous",
            approver |-> "admin"], now, AnsweringLLM).code = "404"
    /\ \E id \in DOMAIN tasks :
        /\ tasks[id].status = "completed"
        /\ approve_task(World, id, [approved |-> TRUE, comment |-> None,
               approver |-> None], now, AnsweringLLM).code = "400"
        /\ approve_task(World, id, [approved |-> FALSE, comment |-> "too dangerous",
               approver |-> "admin"], now, AnsweringLLM).code = "400"

\* C9: a task left waiting for approval (suspended by run, no approve or
\* reject request) past created_at + timeout gets status timeout from the
\* sweeper's next cycle, with approver system_timeout in its workflow state.
\* (The sweeper fetches the rows with status waiting_approval; a suspended
\* task's status is pending, so no cycle ever touches it.)
C9_OverdueTaskTimesOut ==
    \A id \in DOMAIN tasks :
        (Suspended(id) /\ Overdue(id)) =>
            \A pending_tasks \in get_pending_approvals(tasks),
               llms \in [PendingIds(tasks) -> {AnsweringLLM}] :
                LET W2 == check_approval_timeouts(World, pending_tasks, now, llms)
                IN  /\ W2.tasks[id].status = "timeout"
                    /\ W2.ckpt[tasks[id].thread_id].values.approver = "system_timeout"

\* C10: the sweeper auto-rejects a task at most once, also when the resume
\* it called failed partway.
\* (A failed resume leaves the status waiting_approval and skips the timeout
\* write, so the next cycle fetches the task and calls resume again.)
C10_AutoRejectedAtMostOnce ==
    \A id \in DOMAIN tasks : log[id].auto_rejects <= 1

\* The sweeper's cycle on the present state, the rows fetched in this order.
SweptLog(pending_tasks, llms) ==
    check_approval_timeouts(World, pending_tasks, now, llms).log

\* C11: in one sweep cycle every task that is waiting_approval and past its
\* deadline has resume called for it, whatever happened to the tasks swept
\* before it, and the cycle ends (the loop then sleeps and starts the next).
C11_SweepGoesOnAfterFailure ==
    \A pending_tasks \in get_pending_approvals(tasks),
       llms \in [PendingIds(tasks) -> ResumeLLMs] :
        \A id \in DOMAIN tasks :
            SweptLog(pending_tasks, llms)[id].auto_rejects =
                log[id].auto_rejects
                    + (IF id \in PendingIds(tasks) /\ Overdue(id) THEN 1 ELSE 0)

\* C11 witness: two tasks wait past their deadline, the auto-reject of the
\* one swept first fails (it still waits after the cycle), and the other had
\* resume called for it in the same cycle.
C11_Witness ==
    \E a, b \in PendingIds(tasks) :
        /\ a # b /\ Overdue(a) /\ Overdue(b)
        /\ LET W2 == check_approval_timeouts(World, <<a, b>>, now,
                        [id \in PendingIds(tasks) |-> AnsweringLLM])
           IN  /\ W2.tasks[a].status = "waiting_approval"
               /\ W2.log[b].auto_rejects = log[b].auto_rejects + 1

\* C12: after a restart of the process, a task that run suspended before
\* the restart still has its checkpointed Workflow State, suspended before
\* human_review, for a resume to find.
\* (Without langgraph-checkpoint-sqlite get_checkpointer() falls back to a
\* MemorySaver; the restart empties it.)
C12_CheckpointSurvivesRestart ==
    \A id \in DOMAIN tasks :
        (log[id].outcome = "returned" /\ NeedsApproval(id)) => Suspended(id)

\* C13: for every task of the store, pending_action is non-empty if and only
\* if the status is waiting_approval.
\* (execute_action_node and handle_rejection_node write status and
\* current_node only; pending_action keeps what human_review_node wrote.)
C13_PendingActionIffWaiting ==
    \A id \in DOMAIN tasks :
        (tasks[id].pending_action \notin {None, ""})
            <=> (tasks[id].status = "waiting_approval")

\* C14: for each task, the approve requests, reject requests and sweeper
\* cycles together start at most one resume, and its action is executed at
\* most once.
\* (The only guard is the status test of _process_approval and the sweeper's
\* query; a resume that fails leaves the status waiting_approval, so every
\* further request and cycle starts another resume.)
C14_AtMostOneResumePerTask ==
    \A id \in DOMAIN tasks :
        /\ log[id].resumes + log[id].auto_rejects <= 1
        /\ log[id].executed <= 1

\* The run of task id ended because llm.invoke raised, in analyze or respond.
LLMFailed(id) ==
    /\ log[id].outcome = "raised"
    /\ \/ log[id].answer_kind = "llm_failed"
       \/ (log[id].nodes # <<>> /\ log[id].nodes[Len(log[id].nodes)] = "respond")

\* C15: when the LLM call fails during a run, in analysis or in respond, the
\* task's status becomes failed.
\* (llm.invoke's exception leaves the node, the graph and run_hitl_agent; no
\* code writes status failed. The status stays pending, or completed when
\* respond failed after execute.)
C15_LLMFailureMarksTaskFailed ==
    \A id \in DOMAIN tasks : LLMFailed(id) => tasks[id].status = "failed"

\* C16: get_pending_approvals() returns the tasks whose status is
\* waiting_approval, all of them, each once, and no other, the older
\* (created_at) before the newer.
C16_PendingOldestFirst ==
    /\ get_pending_approvals(tasks) # {}
    /\ \A q \in get_pending_approvals(tasks) :
        /\ \A i \in 1..Len(q) : tasks[q[i]].status = "waiting_approval"
        /\ \A id \in DOMAIN tasks :
              tasks[id].status = "waiting_approval"
                => Cardinality({ i \in 1..Len(q) : q[i] = id }) = 1
        /\ \A i \in 1..(Len(q) - 1) :
              tasks[q[i]].created_at <= tasks[q[i + 1]].created_at

\* C16 witness: two tasks wait, created at different times; the fetch gives
\* the older first and nothing else.
C16_Witness ==
    \E a, b \in DOMAIN tasks :
        /\ tasks[a].status = "waiting_approval"
        /\ tasks[b].status = "waiting_approval"
        /\ tasks[a].created_at < tasks[b].created_at
        /\ get_pending_approvals(tasks) = {<<a, b>>}

\* C17: no two task records share a thread_id (the table's rows are keyed by
\* task_id, so no two share a task_id), also when run_hitl_agent is given its
\* ids.
\* (thread_id has an index, not a UNIQUE constraint, and run_hitl_agent does
\* not look the thread up before create_task.)
C17_ThreadIdsUnique ==
    \A a, b \in DOMAIN tasks :
        a # b => tasks[a].thread_id # tasks[b].thread_id

\* C18: updated_at >= created_at in every state; in every step no task's
\* updated_at decreases and a row that changes is stamped with the time of
\* the change.
C18_UpdatedAtMonotonic ==
    /\ [](\A id \in DOMAIN tasks : tasks[id].updated_at >= tasks[id].created_at)
    /\ [][\A id \in DOMAIN tasks :
            /\ id \in DOMAIN tasks'
            /\ tasks'[id].updated_at >= tasks[id].updated_at
            /\ tasks'[id] # tasks[id] => tasks'[id].updated_at = now]_vars

\* C18 witness: a task's row was updated after the clock had advanced.
C18_Witness ==
    \E id \in DOMAIN tasks :
        /\ tasks[id].updated_at > tasks[id].created_at
        /\ tasks[id].status # "pending"
        /\ log[id].written # <<>>

\* What a resume r did for task id, seen from the present state.
PatchedOrRan(r, id) ==
    r.W.ckpt # ckpt \/ r.W.log[id].nodes # log[id].nodes

DecisionWrittenFirst(r, id) ==
    /\ Len(r.W.log[id].written) > Len(log[id].written)
    /\ r.W.log[id].written[Len(log[id].written) + 1] \in {"approved", "rejected"}

ResumeInOrder(r, id, approval_status) ==
    /\ UpdateTaskRaises(ResumeUpdates(approval_status))
        => (r.raised /\ r.W.ckpt = ckpt /\ r.W.tasks = tasks /\ r.W.log = log)
    /\ PatchedOrRan(r, id) => DecisionWrittenFirst(r, id)

\* C19: resume_after_approval writes the decision to the Task Store before it
\* patches the checkpoint and before any node runs; when that write raises,
\* the resume raises, the checkpoint is not patched and no node runs.
C19_ResumeStepsInOrder ==
    \A id \in DOMAIN tasks, approved \in BOOLEAN :
        ResumeInOrder(
            resume_after_approval(World, id, tasks[id].thread_id, approved,
                "checked", "admin", now, AnsweringLLM),
            id, IF approved THEN "approved" ELSE "rejected")

\* C19 witness: a task is suspended before human_review, the store write of
\* a resume for it raises, and its checkpoint still has no decision.
C19_Witness ==
    \E id \in DOMAIN tasks :
        /\ Suspended(id)
        /\ UpdateTaskRaises(ResumeUpdates("approved"))
        /\ resume_after_approval(World, id, tasks[id].thread_id, TRUE,
               "checked", "admin", now, AnsweringLLM).W.ckpt[tasks[id].thread_id]
                   .values.approval_status = ""

\* The fields of a task's row that the nodes write.
NodeFields(row) ==
    [status |-> row.status, current_node |-> row.current_node,
     pending_action |-> row.pending_action]

\* human_review_node, run on Workflow State s now, changes nothing.
ReviewIsNoOp(s, r) ==
    /\ ~r.raised
    /\ Merge(s, r.upd) = s
    /\ NodeFields(r.w.tasks[s.task_id]) = NodeFields(tasks[s.task_id])

\* C20: when human_review_node runs with approval_status already approved,
\* rejected or timeout, it changes no field of the Workflow State and leaves
\* status, current_node and pending_action of the task's row as they are.
\* (It returns {} but writes status waiting_approval, current_node and
\* pending_action first, before it looks at approval_status.)
C20_ReviewIsNoOpOnResume ==
    \A thread_id \in DOMAIN ckpt :
        (/\ ckpt[thread_id].next = "human_review"
         /\ ckpt[thread_id].values.approval_status \in {"approved", "rejected", "timeout"}
         /\ ckpt[thread_id].values.task_id \in DOMAIN tasks)
        => ReviewIsNoOp(ckpt[thread_id].values,
               human_review_node(ckpt[thread_id].values, Store(World), now))

\* The statuses task id has had, from create_task on.
StatusHistory(id) == <<"pending">> \o log[id].written

AllowedSteps ==
    {<<"pending", "waiting_approval">>, <<"pending", "completed">>,
     <<"waiting_approval", "approved">>, <<"waiting_approval", "rejected">>,
     <<"approved", "completed">>, <<"rejected", "timeout">>}

\* C21: the statuses of a task follow one another only by the steps
\* pending -> waiting_approval, pending -> completed, waiting_approval ->
\* approved, waiting_approval -> rejected, approved -> completed and
\* rejected -> timeout.
\* (A resumed run is written waiting_approval by human_review_node and then
\* completed by execute_action_node: waiting_approval -> completed.)
C21_StatusStepsAllowed ==
    \A id \in DOMAIN tasks :
        \A i \in 1..(Len(StatusHistory(id)) - 1) :
            <<StatusHistory(id)[i], StatusHistory(id)[i + 1]>> \in AllowedSteps

\* C22: for a task the sweeper auto-rejected, the workflow's approval_status
\* is timeout and the final answer comes from the respond node's timeout
\* branch.
\* (The sweeper calls resume_after_approval(approved=False), whose patch is
\* approval_status = "rejected"; no code sets approval_status to timeout.
\* The resume also raises before it patches anything.)
C22_AutoRejectAnswersTimeout ==
    \A id \in DOMAIN tasks :
        (log[id].auto_rejects > 0 /\ OwnCheckpoint(id)) =>
            /\ ckpt[tasks[id].thread_id].values.approval_status = "timeout"
            /\ ckpt[tasks[id].thread_id].values.final_answer # <<>>
            /\ ckpt[tasks[id].thread_id].values.final_answer[1] = "timeout"

---------------------------------------------------------------------------
\* The nodes on their own: execute_action_node and generate_response_node are
\* module-level functions of a Workflow State, and the graph runs them on
\* whatever state the thread's checkpoint holds. Here one task's thread is
\* about to enter one of the two with a state drawn from the values the
\* fields can have, and the graph goes on from there.
NodeStates(task_id, thread_id, user_input) ==
    { [initial_state(task_id, thread_id, user_input) EXCEPT
            !.analysis = <<"delete the table">>,
            !.action_plan = [action_type |-> "delete_data", description |-> "drop table"],
            !.risk_level = "high",
            !.requires_approval = f.requires_approval,
            !.approval_status = f.approval_status,
            !.approval_comment = f.approval_comment,
            !.execution_result = f.execution_result,
            !.error = f.error] :
        f \in [requires_approval : BOOLEAN,
               approval_status : {"", "pending", "approved", "rejected", "timeout"},
               approval_comment : {"", "too dangerous"},
               execution_result : {<<>>, <<"data deleted: ", "drop table">>},
               error : {<<>>, <<"boom">>}] }

NodeInit ==
    \E user_input \in UserInputs, node \in {"execute", "respond"} :
        \E s \in NodeStates(Min(TaskIds), Min(ThreadIds), user_input) :
            /\ tasks = create_task([id \in {} |-> TaskMetadata(NoId, "", 0)],
                                   Min(TaskIds), Min(ThreadIds), user_input, 0)
            /\ ckpt = [th \in {Min(ThreadIds)} |-> [values |-> s, next |-> node]]
            /\ log = [id \in TaskIds |-> NoLog]
            /\ now = 0

\* The graph enters the node the checkpoint names and runs on to its end.
EnterNode ==
    \E thread_id \in DOMAIN ckpt, llm \in ResumeLLMs :
        /\ ckpt[thread_id].next \in {"execute", "respond"}
        /\ log[ckpt[thread_id].values.task_id].nodes = <<>>
        /\ Becomes(GraphResume(World, thread_id, now, llm).W)
        /\ UNCHANGED now

NodeNext == EnterNode

NodeSpec == NodeInit /\ [][NodeNext]_vars

\* The execute node was entered for task id with requires_approval true and
\* an approval_status other than approved.
ExecutedUnapproved(id) ==
    /\ id \in DOMAIN tasks
    /\ OwnCheckpoint(id)
    /\ "execute" \in Range(log[id].nodes)
    /\ ckpt[tasks[id].thread_id].values.requires_approval
    /\ ckpt[tasks[id].thread_id].values.approval_status # "approved"

\* C23: when the execute node is entered with requires_approval true and an
\* approval_status other than approved, no action is performed, the violation
\* is recorded as the workflow's error and as the task's error_message, the
\* workflow goes on to respond, and the status becomes neither completed nor
\* failed.
\* (The node returns the error in the Workflow State only; it makes no
\* update_task call on this path, so error_message stays empty.)
C23_UnapprovedExecuteRecordsError ==
    \A id \in DOMAIN tasks :
        ExecutedUnapproved(id) =>
            /\ log[id].executed = 0
            /\ ckpt[tasks[id].thread_id].values.execution_result = <<>>
            /\ ckpt[tasks[id].thread_id].values.error # <<>>
            /\ log[id].nodes = <<"execute", "respond">>
            /\ tasks[id].status \notin {"completed", "failed"}
            /\ tasks[id].error_message # None

\* The respond node has answered for task id.
Responded(id) ==
    /\ id \in DOMAIN tasks
    /\ OwnCheckpoint(id)
    /\ "respond" \in Range(log[id].nodes)
    /\ ckpt[tasks[id].thread_id].values.final_answer # <<>>

\* C24: the respond node's answer is built from exactly one branch, chosen in
\* this order: a non-empty error gives the failure answer; otherwise
\* approval_status rejected gives the rejection answer, which carries
\* approval_comment; otherwise timeout gives the timeout answer; otherwise
\* the answer summarises execution_result.
C24_RespondBranchPriority ==
    \A id \in DOMAIN tasks :
        Responded(id) =>
            LET v == ckpt[tasks[id].thread_id].values
                kind == v.final_answer[1]
                context == v.final_answer[2]
            IN  /\ (v.error # <<>>) => (kind = "failure" /\ context.error = v.error)
                /\ (v.error = <<>> /\ v.approval_status = "rejected") =>
                        (kind = "rejection" /\ context.approval_comment = v.approval_comment)
                /\ (v.error = <<>> /\ v.approval_status = "timeout") => kind = "timeout"
                /\ (v.error = <<>> /\ v.approval_status \notin {"rejected", "timeout"}) =>
                        (kind = "summary" /\ context.execution_result = v.execution_result)

\* A rejected workflow that also has an error was answered with the failure.
C24_Witness ==
    \E id \in DOMAIN tasks :
        /\ Responded(id)
        /\ ckpt[tasks[id].thread_id].values.error # <<>>
        /\ ckpt[tasks[id].thread_id].values.approval_status = "rejected"
        /\ ckpt[tasks[id].thread_id].values.final_answer[1] = "failure"

\* The run of task id got an answer from the LLM that is not the expected
\* JSON object: not JSON at all, or JSON whose top level is not an object.
UnexpectedAnswer(id) ==
    /\ id \in DOMAIN tasks
    /\ log[id].answer_kind \in {"not_json", "json_non_object"}
    /\ log[id].outcome # ""

\* C25: for every LLM answer that is not the expected JSON object, analysis
\* does not raise: the run returns with the synthetic plan, action_type
\* unknown, risk_level high and requires_approval true.
\* (Only json.JSONDecodeError is caught. An answer that is valid JSON but no
\* object, such as an array, passes json.loads and result.get then raises
\* AttributeError, which nothing catches.)
C25_UnexpectedAnswerGetsFallback ==
    \A id \in DOMAIN tasks :
        UnexpectedAnswer(id) =>
            /\ log[id].outcome = "returned"
            /\ log[id].rated = [risk_level |-> "high", requires_approval |-> TRUE]
            /\ OwnCheckpoint(id) =>
                Get(ckpt[tasks[id].thread_id].values.action_plan, "action_type", "") = "unknown"

\* C27: after analysis, whatever the LLM answered, the workflow's risk_level
\* is one of low, medium, high, critical.
\* (The value of the answer's "risk_level" key is copied as it is; nothing
\* compares it with the RiskLevel enumeration.)
C27_RiskLevelInRange ==
    \A id \in DOMAIN tasks :
        log[id].outcome = "returned" =>
            /\ log[id].rated.risk_level \in {"low", "medium", "high", "critical"}
            /\ OwnCheckpoint(id) =>
                Get(ckpt[tasks[id].thread_id].values.action_plan, "risk_level", "low")
                    \in {"low", "medium", "high", "critical"}

\* datetime.utcnow() in a sweep cycle: the present, or the very deadline of
\* a task that waits.
SweepTimes ==
    {now} \cup { tasks[id].created_at + APPROVAL_TIMEOUT_SECONDS : id \in PendingIds(tasks) }

\* Task id is one a cycle at time t may touch.
Sweepable(id, t) ==
    /\ tasks[id].status = "waiting_approval"
    /\ t > tasks[id].created_at + APPROVAL_TIMEOUT_SECONDS

\* Task id is in W2 as it is now: its row, its thread's Workflow State, and
\* the auto-rejects tried for it.
Untouched(W2, id) ==
    /\ id \in DOMAIN W2.tasks
    /\ W2.tasks[id] = tasks[id]
    /\ W2.log[id] = log[id]
    /\ tasks[id].thread_id \in DOMAIN ckpt =>
        /\ tasks[id].thread_id \in DOMAIN W2.ckpt
        /\ W2.ckpt[tasks[id].thread_id] = ckpt[tasks[id].thread_id]

\* C26: a sweep cycle touches only tasks that are in waiting_approval and
\* past their deadline (now > created_at + timeout). Every other task, and
\* every waiting task with now <= deadline, has the same Task Store record
\* and the same Workflow State after the cycle, and no auto-reject is tried
\* for it.
C26_SweepTouchesOnlyOverdue ==
    \A pending_tasks \in get_pending_approvals(tasks), t \in SweepTimes :
        \A llms \in [PendingIds(tasks) -> ResumeLLMs] :
            \A id \in DOMAIN tasks :
                ~Sweepable(id, t) =>
                    Untouched(check_approval_timeouts(World, pending_tasks, t, llms), id)

\* A cycle has run over two waiting tasks: it tried the overdue one and left
\* the other, which is not overdue, alone.
C26_Witness ==
    \E a, b \in DOMAIN tasks :
        /\ Sweepable(a, now) /\ log[a].auto_rejects > 0
        /\ tasks[b].status = "waiting_approval" /\ ~Overdue(b)
        /\ log[b].auto_rejects = 0

\* The row of task id is still there in the next state, with the fields
\* create_task gave it.
IdentityKept(id) ==
    /\ id \in DOMAIN tasks'
    /\ tasks'[id].thread_id = tasks[id].thread_id
    /\ tasks'[id].created_at = tasks[id].created_at
    /\ tasks'[id].user_input = tasks[id].user_input

\* C28: no operation changes the task_id, thread_id, created_at or
\* user_input of a task after create_task, and no operation removes a task's
\* record.
C28_IdentityFieldsImmutable ==
    [][\A id \in DOMAIN tasks : IdentityKept(id)]_vars

\* A task's row has been written by update_task (it is completed), and a
\* later run was given the same thread.
C28_Witness ==
    \E id \in DOMAIN tasks :
        /\ tasks[id].status = "completed"
        /\ \E other \in DOMAIN tasks :
              /\ other # id
              /\ tasks[other].thread_id = tasks[id].thread_id
              /\ tasks[other].created_at > tasks[id].created_at

\* C29: every update_task call made by the nodes, by resume_after_approval
\* and by the sweeper names only attributes the task record has, so none of
\* them is refused for an unknown attribute.
\* (resume_after_approval passes approval_status, which is no field of
\* TaskMetadata and no column of the tasks table.)
C29_UpdateKeywordsAreColumns ==
    \A id \in DOMAIN tasks : \A approved \in BOOLEAN :
        /\ DOMAIN ResumeUpdates(IF approved THEN "approved" ELSE "rejected") \subseteq Columns
        /\ ~UpdateTaskRaises(ResumeUpdates(IF approved THEN "approved" ELSE "rejected"))

---------------------------------------------------------------------------
\* Requests whose analysis the LLM answers with a JSON object that has no
\* "requires_approval" key, with any risk text or none, fenced or not.
OmittingObjects == { o \in LLMObjects : "requires_approval" \notin DOMAIN o }

OmittingLLMs ==
    [analysis_fails : {FALSE},
     text : { <<ObjectLine(o)>> : o \in OmittingObjects }
            \cup { <<FenceLine, ObjectLine(o), FenceLine>> : o \in OmittingObjects },
     respond_fails : BOOLEAN]

\* POST /tasks with such an answer.
SubmitOmitting ==
    \E message \in UserInputs, llm \in OmittingLLMs :
        /\ FreshTaskIds(World) # {}
        /\ Becomes(api_create_task(World, message, now, llm).W)
        /\ UNCHANGED now

OmitNext == Tick \/ SubmitOmitting

OmitSpec == Init /\ [][OmitNext]_vars

\* C30: when the LLM's JSON object omits requires_approval, analysis treats
\* it as true: the request is routed to the review and is not executed
\* without approval, whatever the risk_level, the default medium of a missing
\* one included.
C30_MissingFlagMeansApproval ==
    \A id \in DOMAIN tasks :
        log[id].nodes # <<>> =>
            /\ log[id].rated.requires_approval
            /\ log[id].nodes = <<"analyze">>
            /\ log[id].executed = 0
            /\ tasks[id].status # "completed"
            /\ Suspended(id)

\* One such request was rated low, another had no risk_level and got medium;
\* both wait before the review.
C30_Witness ==
    \E a, b \in DOMAIN tasks :
        /\ log[a].rated = [risk_level |-> "low", requires_approval |-> TRUE]
        /\ log[b].rated = [risk_level |-> "medium", requires_approval |-> TRUE]
        /\ Suspended(a) /\ Suspended(b)

====
